---- MODULE Spec2Model ----
(***************************************************************************)
(* Telegram Channel API (src/main.py): a FastAPI process that owns one     *)
(* Telethon client and proxies three read-only endpoints to it.            *)
(*                                                                         *)
(* The model follows one serving process from module import to shutdown.   *)
(* The Telethon client is the environment: each call into it either        *)
(* returns, yields, or raises one of the exception classes the handlers    *)
(* distinguish.  Requests are handled one at a time; the handlers share no *)
(* state besides the client, so interleaving them adds nothing.            *)
(*                                                                         *)
(* Python values: Optional[T] is a sequence of length at most one          *)
(* (None == <<>>), a dict is a function on its keys, an exception is a     *)
(* record carrying its class.                                              *)
(***************************************************************************)
EXTENDS Integers, Sequences, FiniteSets, TLC

VARIABLES
    phase,        \* "import" | "startup" | "serving" | "failed" | "stopped"
    env,          \* os.environ: TELEGRAM_API_ID, TELEGRAM_API_HASH
    authorized,   \* the upstream's answer to client.is_user_authorized()
    connected,    \* client.is_connected()
    fatal,        \* the exception that escaped import / startup / shutdown
    served,       \* whether an endpoint handler has been invoked
    pc,           \* position of the request being handled
    req,          \* the HTTP request being handled
    limit,        \* the handler's `limit` parameter after Query() validation
    iter_kwargs,  \* the handler's iter_kwargs dict
    avail,        \* messages the upstream holds for the resolved entity
    yielded,      \* upstream objects the current iteration has yielded
    messages,     \* the handler's `messages` / `channels` list
    calls,        \* client methods called on behalf of the current request
    raised,       \* the exception raised inside the handler's try block
    resp          \* the HTTP response

vars == <<phase, env, authorized, connected, fatal, served, pc, req, limit,
          iter_kwargs, avail, yielded, messages, calls, raised, resp>>

lifecycle == <<phase, env, authorized, connected, fatal>>
request == <<pc, req, limit, iter_kwargs, avail, yielded, messages, calls,
             raised, resp>>

----------------------------------------------------------------------------
(* Bounds of the model. *)

\* longest message history the upstream holds for a channel
MaxMsgs == 3
\* longest dialog list the upstream holds
MaxDialogs == 3

(* Program constants. *)

\* Query(default=50, ...)
LimitDefault == 50
\* Query(..., ge=1, ...)
LimitMin == 1
\* Query(..., le=1000, ...)
LimitMax == 1000

----------------------------------------------------------------------------
(* Python values. *)

None == <<>>
Some(v) == <<v>>

\* `x or default` on an Optional[str]: None and "" are falsy
StrOr(x, default) == IF x # None /\ x[1] # "" THEN x[1] ELSE default

\* bool(x) of an Optional[object]: an object is truthy, None is not
Truthy(x) == x # None

\* `not os.getenv(...)`: an unset or empty variable is falsy
EnvMissing(v) == v = None \/ v[1] = ""

Min(a, b) == IF a <= b THEN a ELSE b

\* the classes an exception of class cls is an instance of
ExcBases(cls) ==
    CASE cls = "ValueError" -> {"ValueError", "Exception"}
      [] cls = "ValidationError" -> {"ValidationError", "ValueError", "Exception"}
      [] cls = "FloodWaitError" -> {"FloodWaitError", "RPCError", "Exception"}
      [] cls = "ChannelPrivateError" -> {"ChannelPrivateError", "RPCError", "Exception"}
      [] cls = "ConnectionError" -> {"ConnectionError", "OSError", "Exception"}
      [] cls = "RuntimeError" -> {"RuntimeError", "Exception"}
      [] OTHER -> {cls, "Exception"}

IsInstance(e, cls) == cls \in ExcBases(e.cls)

\* an exception object: class, str(e), FloodWaitError.seconds, and where in
\* the try block it was raised
Exc(cls, msg, seconds, origin, collected) ==
    [cls |-> cls, msg |-> msg, seconds |-> seconds, origin |-> origin,
     collected |-> collected]

NoExc == Exc("none", "", 0, "none", 0)

\* raise HTTPException(status_code=..., detail=...), and a 200 response
HTTPException(status, detail) == [status |-> status, detail |-> detail, body |-> <<>>]
Ok(body) == [status |-> 200, detail |-> "", body |-> body]
NoResp == [status |-> 0, detail |-> "", body |-> <<>>]

NoReq == [ep |-> "none", channel_id |-> 0, username |-> "", limit |-> None,
          offset_id |-> None, min_id |-> None, max_id |-> None]

NoKwargs == [k \in {} |-> 0]

----------------------------------------------------------------------------
(* The environment: process environment, upstream account, HTTP clients. *)

\* values of TELEGRAM_API_ID and TELEGRAM_API_HASH (None: unset)
ApiIdValues == {None, Some(""), Some("12345"), Some("abc")}
ApiHashValues == {None, Some(""), Some("0123abcd")}

\* int(v) succeeds on a decimal string and raises ValueError otherwise
IntParses(v) == v \in {"12345"}

\* channel ids and handles HTTP clients ask for, and the ones that exist
ChannelIds == {100, 404}
KnownIds == {100}
Usernames == {"newsch", "ghost"}
KnownNames == {"newsch"}

\* ?limit= values HTTP clients send (None: the parameter is omitted)
LimitInputs == {None, Some(0), Some(1), Some(2), Some(1000), Some(1001)}
\* ?offset_id= / ?min_id= / ?max_id= values
PageInputs == {None, Some(2)}

\* wait durations of a FloodWaitError
FloodSeconds == {7, 30}

\* Message.message, Message.media, Message.date of an upstream message
TextValues == {None, Some(""), Some("hello")}
MediaValues == {None, Some([cls |-> "MessageMediaPhoto"]),
                Some([cls |-> "MessageMediaDocument"])}
DateValues == {None, Some("2024-01-01T00:00:00")}

UpstreamMessages ==
    [message : TextValues, media : MediaValues, date : DateValues]

\* the media object Telethon attaches to a message that carries a photo
PhotoMedia == [cls |-> "MessageMediaPhoto"]

\* Dialog.entity of an upstream dialog
UpstreamEntities ==
    [cls : {"Channel", "Chat", "User"}, username : {None, Some("newsch")}]

\* exceptions the client raises while resolving an entity
ResolveErrors(known, target) ==
    (IF known THEN {}
     ELSE {Exc("ValueError", "Cannot find any entity corresponding to " \o target,
               0, "get_entity", 0)})
    \cup {Exc("FloodWaitError", "A wait of " \o ToString(s) \o " seconds is required",
              s, "get_entity", 0) : s \in FloodSeconds}
    \cup {Exc("ConnectionError", "Cannot send requests while disconnected",
              0, "get_entity", 0)}

\* exceptions the client raises while iterating, after n objects were collected
IterErrors(origin, n) ==
    {Exc("FloodWaitError", "A wait of " \o ToString(s) \o " seconds is required",
         s, origin, n) : s \in FloodSeconds}
    \cup {Exc("ValueError", "Could not find the input entity", 0, origin, n),
          Exc("ChannelPrivateError", "The channel specified is private", 0, origin, n),
          Exc("ConnectionError", "Cannot send requests while disconnected", 0, origin, n)}

----------------------------------------------------------------------------
(* Process lifecycle. *)

Init ==
    /\ phase = "import"
    /\ env \in [TELEGRAM_API_ID : ApiIdValues, TELEGRAM_API_HASH : ApiHashValues]
    /\ authorized \in BOOLEAN
    /\ connected = FALSE
    /\ fatal = NoExc
    /\ served = FALSE
    /\ pc = "idle"
    /\ req = NoReq
    /\ limit = 0
    /\ iter_kwargs = NoKwargs
    /\ avail = 0
    /\ yielded = <<>>
    /\ messages = <<>>
    /\ calls = <<>>
    /\ raised = NoExc
    /\ resp = NoResp

\* `if not API_ID or not API_HASH`
CredentialsMissing ==
    EnvMissing(env.TELEGRAM_API_ID) \/ EnvMissing(env.TELEGRAM_API_HASH)

\* importing main.py: the credential check, then
\* TelegramClient(SESSION_NAME, int(API_ID), API_HASH)
ModuleImport ==
    /\ phase = "import"
    /\ IF CredentialsMissing
       THEN /\ phase' = "failed"
            /\ fatal' = Exc("ValueError",
                            "TELEGRAM_API_ID and TELEGRAM_API_HASH must be set in environment variables",
                            0, "import", 0)
       ELSE IF ~IntParses(env.TELEGRAM_API_ID[1])
       THEN /\ phase' = "failed"
            /\ fatal' = Exc("ValueError", "invalid literal for int() with base 10",
                            0, "import", 0)
       ELSE /\ phase' = "startup"
            /\ fatal' = fatal
    /\ UNCHANGED <<env, authorized, connected, served>>
    /\ UNCHANGED request

\* startup_event without its authorization check
NotAuthorizedUnchecked == FALSE

\* `if not await client.is_user_authorized()`
NotAuthorized == ~authorized

\* startup_event: client.start() connects (and may sign a fresh session in,
\* or raise); then the authorization check
startup_event ==
    /\ phase = "startup"
    /\ \/ /\ phase' = "failed"
          /\ fatal' = Exc("ConnectionError", "Connection to Telegram failed", 0, "start", 0)
          /\ UNCHANGED <<authorized, connected>>
       \/ /\ connected' = TRUE
          /\ authorized' \in (IF authorized THEN {TRUE} ELSE BOOLEAN)
          /\ IF NotAuthorized'
             THEN /\ phase' = "failed"
                  /\ fatal' = Exc("RuntimeError",
                                  "Telegram client is not authorized. Please run setup script first.",
                                  0, "startup", 0)
             ELSE /\ phase' = "serving"
                  /\ fatal' = fatal
    /\ UNCHANGED <<env, served>>
    /\ UNCHANGED request

\* shutdown_event: `await client.disconnect()`, with nothing around it
shutdown_event ==
    /\ phase = "serving"
    /\ pc = "idle"
    /\ phase' = "stopped"
    /\ \/ /\ connected' = FALSE
          /\ fatal' = fatal
       \/ /\ fatal' = Exc("OperationalError", "database is locked", 0, "shutdown", 0)
          /\ UNCHANGED connected
    /\ UNCHANGED <<env, authorized, served>>
    /\ UNCHANGED request

----------------------------------------------------------------------------
(* FastAPI: routing and Query() validation, before any handler runs. *)

\* Query(default=50, ge=1) with the upper bound forgotten
LimitRejectedNoUpperBound(q) == q # None /\ q[1] < LimitMin

\* Query(default=50, ge=1, le=1000): does FastAPI reject the request (422)?
LimitRejected(q) == q # None /\ (q[1] < LimitMin \/ q[1] > LimitMax)

\* Query(default=50, ...): the value bound to the handler's `limit`
QueryLimit(q) == IF q = None THEN LimitDefault ELSE q[1]

MessageRequests(ep) ==
    [ep : {ep},
     channel_id : IF ep = "get_messages" THEN ChannelIds ELSE {0},
     username : IF ep = "get_messages_by_username" THEN Usernames ELSE {""},
     limit : LimitInputs, offset_id : PageInputs, min_id : PageInputs,
     max_id : PageInputs]

\* a request for one of the two message endpoints arrives
ReceiveMessages(ep) ==
    /\ phase = "serving"
    /\ pc = "idle"
    /\ \E r \in MessageRequests(ep) :
        /\ req' = r
        /\ IF LimitRejected(r.limit)
           THEN /\ pc' = "responded"
                /\ resp' = HTTPException(422, "limit: value out of range")
                /\ limit' = 0
                /\ UNCHANGED served
           ELSE /\ pc' = "get_entity"
                /\ resp' = NoResp
                /\ limit' = QueryLimit(r.limit)
                /\ served' = TRUE
    /\ iter_kwargs' = NoKwargs
    /\ avail' = 0
    /\ yielded' = <<>>
    /\ messages' = <<>>
    /\ calls' = <<>>
    /\ raised' = NoExc
    /\ UNCHANGED lifecycle

----------------------------------------------------------------------------
(* get_messages / get_messages_by_username. *)

\* iter_kwargs built without the "limit" entry
get_messages_kwargs_no_limit(l, r) ==
    [k \in (IF r.offset_id # None THEN {"offset_id"} ELSE {})
        \cup (IF r.min_id # None THEN {"min_id"} ELSE {})
        \cup (IF r.max_id # None THEN {"max_id"} ELSE {})
     |-> CASE k = "offset_id" -> r.offset_id[1]
           [] k = "min_id" -> r.min_id[1]
           [] k = "max_id" -> r.max_id[1]]

\* get_messages: iter_kwargs = {"limit": limit}, plus each pagination
\* parameter that is not None
get_messages_kwargs(l, r) ==
    [k \in {"limit"}
        \cup (IF r.offset_id # None THEN {"offset_id"} ELSE {})
        \cup (IF r.min_id # None THEN {"min_id"} ELSE {})
        \cup (IF r.max_id # None THEN {"max_id"} ELSE {})
     |-> CASE k = "limit" -> l
           [] k = "offset_id" -> r.offset_id[1]
           [] k = "min_id" -> r.min_id[1]
           [] k = "max_id" -> r.max_id[1]]

\* get_messages_by_username: the same dict
get_messages_by_username_kwargs(l, r) ==
    [k \in {"limit"}
        \cup (IF r.offset_id # None THEN {"offset_id"} ELSE {})
        \cup (IF r.min_id # None THEN {"min_id"} ELSE {})
        \cup (IF r.max_id # None THEN {"max_id"} ELSE {})
     |-> CASE k = "limit" -> l
           [] k = "offset_id" -> r.offset_id[1]
           [] k = "min_id" -> r.min_id[1]
           [] k = "max_id" -> r.max_id[1]]

BuildKwargs(ep, l, r) ==
    IF ep = "get_messages" THEN get_messages_kwargs(l, r)
    ELSE get_messages_by_username_kwargs(l, r)

\* type(x).__name__ of a media object, or of None
TypeName(x) == IF x = None THEN "NoneType" ELSE x[1].cls

\* the placeholder substituted whenever the text is empty (`if not text:`)
get_messages_text_any_empty(message) ==
    LET text == StrOr(message.message, "")
    IN IF text = ""
       THEN "[Media: " \o TypeName(message.media) \o "]"
       ELSE text

\* the placeholder substituted whenever there is media (`if message.media:`)
get_messages_by_username_text_any_media(message) ==
    LET text == StrOr(message.message, "")
    IN IF Truthy(message.media)
       THEN "[Media: " \o TypeName(message.media) \o "]"
       ELSE text

\* client.iter_messages(entity, **kwargs) yields at most kwargs["limit"]
\* of the n messages it holds, and all of them when no limit is passed
UpstreamCount(kwargs, n) ==
    IF "limit" \in DOMAIN kwargs THEN Min(kwargs["limit"], n) ELSE n

\* get_messages: text = message.message or ""; a media message without
\* text gets the placeholder
get_messages_text(message) ==
    LET text == StrOr(message.message, "")
    IN IF Truthy(message.media) /\ text = ""
       THEN "[Media: " \o TypeName(message.media) \o "]"
       ELSE text

\* get_messages_by_username: the same mapping
get_messages_by_username_text(message) ==
    LET text == StrOr(message.message, "")
    IN IF Truthy(message.media) /\ text = ""
       THEN "[Media: " \o TypeName(message.media) \o "]"
       ELSE text

MessageText(ep, message) ==
    IF ep = "get_messages" THEN get_messages_text(message)
    ELSE get_messages_by_username_text(message)

\* pydantic: MessageModel requires id: int, date: datetime, text: str
MessageModelValid(id, date, text) == date # None

MessageModel(id, date, text) == [id |-> id, date |-> date[1], text |-> text]

\* get_messages without its `except ValueError` clause
get_messages_except_no_not_found(e) ==
    IF IsInstance(e, "FloodWaitError")
    THEN HTTPException(429, "Rate limited. Wait " \o ToString(e.seconds) \o " seconds")
    ELSE HTTPException(500, "Error retrieving messages: " \o e.msg)

\* get_messages_by_username with `except Exception` as its first clause
get_messages_by_username_except_broad_first(e) ==
    HTTPException(500, "Error retrieving messages: " \o e.msg)

\* the except clauses of get_messages, in order
get_messages_except(e) ==
    IF IsInstance(e, "ValueError")
    THEN HTTPException(404, "Channel not found: " \o e.msg)
    ELSE IF IsInstance(e, "FloodWaitError")
    THEN HTTPException(429, "Rate limited. Wait " \o ToString(e.seconds) \o " seconds")
    ELSE HTTPException(500, "Error retrieving messages: " \o e.msg)

\* the except clauses of get_messages_by_username, in order
get_messages_by_username_except(e) ==
    IF IsInstance(e, "ValueError")
    THEN HTTPException(404, "Channel not found: " \o e.msg)
    ELSE IF IsInstance(e, "FloodWaitError")
    THEN HTTPException(429, "Rate limited. Wait " \o ToString(e.seconds) \o " seconds")
    ELSE HTTPException(500, "Error retrieving messages: " \o e.msg)

Except(ep, e) ==
    IF ep = "get_messages" THEN get_messages_except(e)
    ELSE get_messages_by_username_except(e)

\* an exception leaves the try block: the locals are gone, the matching
\* except clause builds the response
Raise(e) ==
    /\ raised' = e
    /\ resp' = Except(req.ep, e)
    /\ pc' = "responded"
    /\ yielded' = <<>>
    /\ messages' = <<>>

\* is the path parameter an entity the account can resolve?
Known(r) ==
    IF r.ep = "get_messages" THEN r.channel_id \in KnownIds
    ELSE r.username \in KnownNames

Target(r) ==
    IF r.ep = "get_messages" THEN ToString(r.channel_id) ELSE r.username

\* entity = await client.get_entity(...), then iter_kwargs is built and the
\* iteration is opened
ResolveEntity(ep) ==
    /\ pc = "get_entity"
    /\ req.ep = ep
    /\ \/ /\ Known(req)
          /\ avail' \in 0..MaxMsgs
          /\ iter_kwargs' = BuildKwargs(ep, limit, req)
          /\ calls' = calls \o <<"get_entity", "iter_messages">>
          /\ pc' = "iter_messages"
          /\ UNCHANGED <<yielded, messages, raised, resp>>
       \/ /\ \E e \in ResolveErrors(Known(req), Target(req)) : Raise(e)
          /\ calls' = Append(calls, "get_entity")
          /\ UNCHANGED <<avail, iter_kwargs>>
    /\ UNCHANGED <<req, limit, served>>
    /\ UNCHANGED lifecycle

\* one turn of `async for message in client.iter_messages(...)`: the loop
\* body on the next message, the return after the last one, or an exception
IterateMessages(ep) ==
    /\ pc = "iter_messages"
    /\ req.ep = ep
    /\ \/ /\ Len(yielded) < UpstreamCount(iter_kwargs, avail)
          /\ \E m \in UpstreamMessages :
               LET id == avail - Len(yielded)
                   text == MessageText(ep, m)
               IN IF MessageModelValid(id, m.date, text)
                  THEN /\ yielded' = Append(yielded, m)
                       /\ messages' = Append(messages, MessageModel(id, m.date, text))
                       /\ UNCHANGED <<pc, raised, resp>>
                  ELSE Raise(Exc("ValidationError",
                                 "1 validation error for MessageModel",
                                 0, "MessageModel", Len(messages)))
       \/ /\ Len(yielded) >= UpstreamCount(iter_kwargs, avail)
          /\ resp' = Ok(messages)
          /\ pc' = "responded"
          /\ UNCHANGED <<yielded, messages, raised>>
       \/ \E e \in IterErrors("iter_messages", Len(messages)) : Raise(e)
    /\ UNCHANGED <<req, limit, iter_kwargs, avail, calls, served>>
    /\ UNCHANGED lifecycle

get_messages ==
    ResolveEntity("get_messages") \/ IterateMessages("get_messages")

get_messages_by_username ==
    \/ ResolveEntity("get_messages_by_username")
    \/ IterateMessages("get_messages_by_username")

----------------------------------------------------------------------------
(* list_channels, root, health. *)

\* a request for GET /channels arrives: the handler opens iter_dialogs()
ReceiveChannels ==
    /\ phase = "serving"
    /\ pc = "idle"
    /\ req' = [NoReq EXCEPT !.ep = "list_channels"]
    /\ pc' = "iter_dialogs"
    /\ served' = TRUE
    /\ avail' \in 0..MaxDialogs
    /\ calls' = <<"iter_dialogs">>
    /\ UNCHANGED <<limit, iter_kwargs, yielded, messages, raised, resp>>
    /\ UNCHANGED lifecycle

\* isinstance(entity, (Channel, Chat))
IsChannelOrChat(entity) == entity.cls \in {"Channel", "Chat"}

\* isinstance(entity, Channel)
IsChannel(entity) == entity.cls = "Channel"

\* ChannelModel(id=..., title=..., username=..., participants_count=...)
ChannelModel(entity) ==
    [id |-> entity.id, title |-> entity.title, username |-> entity.username,
     participants_count |-> entity.participants_count]

\* `except Exception as e` of list_channels
list_channels_except(e) ==
    HTTPException(500, "Error listing channels: " \o e.msg)

\* one turn of `async for dialog in client.iter_dialogs()`
list_channels ==
    /\ pc = "iter_dialogs"
    /\ \/ /\ Len(yielded) < avail
          /\ \E d \in UpstreamEntities :
               LET entity == [cls |-> d.cls, id |-> 100 + Len(yielded),
                              title |-> "News", username |-> d.username,
                              participants_count |-> Some(5000)]
               IN /\ yielded' = Append(yielded, entity)
                  /\ messages' = IF IsChannel(entity)
                                 THEN Append(messages, ChannelModel(entity))
                                 ELSE messages
          /\ UNCHANGED <<pc, raised, resp>>
       \/ /\ Len(yielded) >= avail
          /\ resp' = Ok(messages)
          /\ pc' = "responded"
          /\ UNCHANGED <<yielded, messages, raised>>
       \/ \E e \in IterErrors("iter_dialogs", Len(messages)) :
            /\ raised' = e
            /\ resp' = list_channels_except(e)
            /\ pc' = "responded"
            /\ yielded' = <<>>
            /\ messages' = <<>>
    /\ UNCHANGED <<req, limit, iter_kwargs, avail, calls, served>>
    /\ UNCHANGED lifecycle

\* GET /: the banner
root ==
    /\ phase = "serving"
    /\ pc = "idle"
    /\ req' = [NoReq EXCEPT !.ep = "root"]
    /\ resp' = [status |-> 200, detail |-> "Telegram Channel API 1.0.0", body |-> <<>>]
    /\ pc' = "responded"
    /\ served' = TRUE
    /\ UNCHANGED <<limit, iter_kwargs, avail, yielded, messages, calls, raised>>
    /\ UNCHANGED lifecycle

\* GET /health: status and client.is_connected()
health ==
    /\ phase = "serving"
    /\ pc = "idle"
    /\ req' = [NoReq EXCEPT !.ep = "health"]
    /\ resp' = [status |-> 200,
                detail |-> "healthy, connected=" \o ToString(connected),
                body |-> <<>>]
    /\ pc' = "responded"
    /\ served' = TRUE
    /\ UNCHANGED <<limit, iter_kwargs, avail, yielded, messages, calls, raised>>
    /\ UNCHANGED lifecycle

\* the response is sent and the request's state is dropped
Complete ==
    /\ pc = "responded"
    /\ pc' = "idle"
    /\ req' = NoReq
    /\ limit' = 0
    /\ iter_kwargs' = NoKwargs
    /\ avail' = 0
    /\ yielded' = <<>>
    /\ messages' = <<>>
    /\ calls' = <<>>
    /\ raised' = NoExc
    /\ resp' = NoResp
    /\ UNCHANGED served
    /\ UNCHANGED lifecycle

Next ==
    \/ ModuleImport
    \/ startup_event
    \/ shutdown_event
    \/ ReceiveMessages("get_messages")
    \/ ReceiveMessages("get_messages_by_username")
    \/ get_messages
    \/ get_messages_by_username
    \/ ReceiveChannels
    \/ list_channels
    \/ root
    \/ health
    \/ Complete

Spec == Init /\ [][Next]_vars

----------------------------------------------------------------------------
(* Properties. *)

MessageEndpoints == {"get_messages", "get_messages_by_username"}

\* a message endpoint has produced its response
MessagesResponded == pc = "responded" /\ req.ep \in MessageEndpoints

\* the limit the HTTP client asked for (50 when it sent none)
RequestedLimit == IF req.limit = None THEN 50 ELSE req.limit[1]

\* the upstream message has no text (None or "")
NoText(m) == m.message = None \/ m.message = Some("")

\* C1: on both message endpoints, when get_entity fails because the id or
\* handle does not exist (the client raises its not-found ValueError), the
\* response is 404, never 500 or 429.
C1_NotFoundIs404 ==
    (MessagesResponded /\ raised.origin = "get_entity" /\ raised.cls = "ValueError")
        => (~Known(req) /\ resp.status = 404 /\ resp.status \notin {429, 500})

C1_Witness ==
    /\ MessagesResponded
    /\ req.ep = "get_messages_by_username"
    /\ req.username = "ghost"
    /\ raised.origin = "get_entity"
    /\ raised.cls = "ValueError"
    /\ resp.status = 404

\* C2: on both message endpoints, a FloodWaitError with wait s raised at any
\* point of the request (resolution, or iteration after any number of
\* collected messages) gives exactly 429 carrying s, never 404, 500 or a
\* successful (partial) list.
C2_FloodIs429 ==
    (MessagesResponded /\ raised.cls = "FloodWaitError")
        => /\ resp.status = 429
           /\ resp.detail = "Rate limited. Wait " \o ToString(raised.seconds) \o " seconds"
           /\ raised.seconds \in FloodSeconds
           /\ resp.body = <<>>

C2_Witness ==
    /\ MessagesResponded
    /\ raised.cls = "FloodWaitError"
    /\ raised.origin = "iter_messages"
    /\ raised.collected = 2
    /\ raised.seconds = 30
    /\ resp.status = 429
    /\ resp.detail = "Rate limited. Wait 30 seconds"

C4_LengthWithinLimit ==
    (MessagesResponded /\ resp.status = 200)
        => /\ Len(resp.body) >= 0
           /\ Len(resp.body) <= RequestedLimit
           /\ Len(resp.body) = Min(RequestedLimit, avail)

C4_Witness ==
    /\ MessagesResponded
    /\ resp.status = 200
    /\ req.limit = Some(2)
    /\ avail = 3
    /\ Len(resp.body) = 2

\* C5 as claimed: every message of a successful response has a non-empty
\* text, also one that has neither text nor media.
C5_TextNeverEmpty ==
    (MessagesResponded /\ resp.status = 200)
        => \A i \in 1..Len(resp.body) : resp.body[i].text # ""

\* C5 as amended: the text of a returned message is empty exactly when the
\* upstream message has neither text nor media; otherwise it is the
\* original text or the media placeholder.
C5_TextEmptyOnlyWithoutTextAndMedia ==
    (MessagesResponded /\ resp.status = 200)
        => /\ Len(resp.body) = Len(yielded)
           /\ \A i \in 1..Len(resp.body) :
                /\ (resp.body[i].text = "")
                      <=> (NoText(yielded[i]) /\ yielded[i].media = None)
                /\ resp.body[i].text # ""
                      => \/ yielded[i].message = Some(resp.body[i].text)
                         \/ /\ NoText(yielded[i])
                            /\ yielded[i].media # None
                            /\ resp.body[i].text =
                                 "[Media: " \o yielded[i].media[1].cls \o "]"

C5_Witness ==
    /\ MessagesResponded
    /\ resp.status = 200
    /\ \E i \in 1..Len(resp.body) :
         /\ yielded[i].message = None
         /\ yielded[i].media = None
         /\ resp.body[i].text = ""

\* C6 as claimed: non-empty native text is kept unchanged (also with media);
\* empty text with media gives a placeholder naming the media kind, which
\* for a photo attachment is exactly "[Media: Photo]".
C6_PhotoPlaceholderIsPhoto ==
    (MessagesResponded /\ resp.status = 200)
        => \A i \in 1..Len(resp.body) :
             /\ ~NoText(yielded[i]) => yielded[i].message = Some(resp.body[i].text)
             /\ (NoText(yielded[i]) /\ yielded[i].media = Some(PhotoMedia))
                  => resp.body[i].text = "[Media: Photo]"

\* C6 as amended: non-empty native text is kept unchanged (also with media);
\* empty text with media gives "[Media: <class name of the media object>]",
\* which for a photo attachment is "[Media: MessageMediaPhoto]".
C6_PlaceholderNamesMediaClass ==
    (MessagesResponded /\ resp.status = 200)
        => \A i \in 1..Len(resp.body) :
             /\ ~NoText(yielded[i]) => yielded[i].message = Some(resp.body[i].text)
             /\ (NoText(yielded[i]) /\ yielded[i].media # None)
                  => resp.body[i].text = "[Media: " \o yielded[i].media[1].cls \o "]"
             /\ (NoText(yielded[i]) /\ yielded[i].media = Some(PhotoMedia))
                  => resp.body[i].text = "[Media: MessageMediaPhoto]"

C6_Witness ==
    /\ MessagesResponded
    /\ resp.status = 200
    /\ \E i, j \in 1..Len(resp.body) :
         /\ yielded[i].message = Some("")
         /\ yielded[i].media = Some(PhotoMedia)
         /\ resp.body[i].text = "[Media: MessageMediaPhoto]"
         /\ yielded[j].message = Some("hello")
         /\ yielded[j].media # None
         /\ resp.body[j].text = "hello"

\* the dialogs of s whose entity is of class Channel, in order
RECURSIVE ChannelDialogs(_)
ChannelDialogs(s) ==
    IF s = <<>> THEN <<>>
    ELSE (IF Head(s).cls = "Channel" THEN <<Head(s)>> ELSE <<>>)
         \o ChannelDialogs(Tail(s))

\* C7: a successful GET /channels response holds exactly the dialogs whose
\* entity is a Channel, one entry each, in upstream order; Chat and User
\* dialogs never appear and do not make the request fail.
C7_OnlyChannelsListed ==
    (pc = "responded" /\ req.ep = "list_channels" /\ resp.status = 200)
        => /\ Len(yielded) = avail
           /\ Len(resp.body) = Len(ChannelDialogs(yielded))
           /\ \A i \in 1..Len(resp.body) :
                /\ resp.body[i].id = ChannelDialogs(yielded)[i].id
                /\ resp.body[i].title = ChannelDialogs(yielded)[i].title
                /\ resp.body[i].username = ChannelDialogs(yielded)[i].username
                /\ resp.body[i].participants_count =
                     ChannelDialogs(yielded)[i].participants_count

C7_Witness ==
    /\ pc = "responded"
    /\ req.ep = "list_channels"
    /\ resp.status = 200
    /\ Len(yielded) = 3
    /\ yielded[1].cls = "Chat"
    /\ yielded[2].cls = "Channel"
    /\ yielded[3].cls = "User"
    /\ Len(resp.body) = 1
    /\ resp.body[1].id = yielded[2].id

\* C8: no endpoint handler runs unless startup succeeded: with the
\* application id or hash missing the import fails, with the session not
\* authorized after client.start() the startup fails, and in either case
\* the process never serves.
C8_NoServingWithoutStartup ==
    /\ (served \/ pc # "idle" \/ phase \in {"serving", "stopped"})
          => /\ env.TELEGRAM_API_ID \notin {None, Some("")}
             /\ env.TELEGRAM_API_HASH \notin {None, Some("")}
             /\ authorized
             /\ connected \/ phase = "stopped"
    /\ (phase = "failed") => (~served /\ pc = "idle" /\ fatal # NoExc)
    /\ (phase # "import"
          /\ (env.TELEGRAM_API_ID \in {None, Some("")}
                \/ env.TELEGRAM_API_HASH \in {None, Some("")}))
          => (phase = "failed" /\ fatal.cls = "ValueError")

C8_Witness ==
    /\ phase = "failed"
    /\ fatal.cls = "RuntimeError"
    /\ connected
    /\ ~authorized
    /\ ~served

\* C9 as claimed: a failure of client.disconnect() does not leave
\* shutdown_event: the shutdown always completes without raising.
C9_ShutdownNeverRaises ==
    (phase = "stopped") => fatal = NoExc

\* C10 as claimed: a message endpoint answers 404 only when get_entity
\* failed; a failure after the entity was resolved gives 429 for a
\* FloodWaitError and 500 otherwise.
C10_NotFoundOnlyFromResolution ==
    (MessagesResponded /\ raised # NoExc /\ raised.origin # "get_entity")
        => /\ resp.status # 404
           /\ resp.status = (IF raised.cls = "FloodWaitError" THEN 429 ELSE 500)

====
